---- MODULE Spec2Model ----
(***************************************************************************)
(* Migration approval / run / execution pipeline of migrate-hub.           *)
(*                                                                         *)
(* The catalog database (migrations, runs, run_items, approvals,           *)
(* db_targets) and the target databases (bookkeeping table, advisory lock) *)
(* are the shared state.  Every inbound request is served by its own       *)
(* worker; the requests being served are the bag inflight, each element    *)
(* holding the worker's position in its handler (pc) and its Go locals.    *)
(* One action is one SQL statement (or one transaction commit) of a        *)
(* handler, so the interleavings of the model are those of the statements  *)
(* the handlers send to the databases.                                     *)
(***************************************************************************)
EXTENDS Integers, Sequences, FiniteSets, Bags, TLC

\* ---------------------------------------------------------------- bounds
\* Number of requests a behaviour issues.
MaxCalls == 4
\* Number of rows the runs table can hold.
MaxRuns == 2
\* Number of runs a behaviour of Spec may request.
MaxRequests == 1
\* Number of execute requests a behaviour of ExecSpec issues.
MaxExecutes == 2

RunIds == 1..MaxRuns

\* ------------------------------------------------------------- constants
\* A Go nil pointer / SQL NULL.
NIL == "<nil>"

Targets == <<"T1", "T2">>
TargetSet == {Targets[i] : i \in 1..Len(Targets)}

Engines == {"postgres", "mysql"}

\* The user ids requests are made with.
Actors == {"u1"}
\* The users who execute the approved runs.
Executors == {"u1", "u2"}

\* SQL texts the requests may carry.
InitialSQLUp == "up1"
InitialSQLDown == "down1"
TxModes == {"auto", "single_transaction", "no_transaction"}
\* The sql_up of an earlier version of the migration.
OldSQLUp == "up0"
Patches ==
  { [sql_up |-> "up2", sql_down |-> NIL],
    [sql_up |-> NIL,   sql_down |-> "down1"],
    [sql_up |-> NIL,   sql_down |-> NIL] }

\* ------------------------------------------------------------ pure code
\* SHA-256 hex digest of the text: a function of the text, distinct texts
\* give distinct digests.
checksum(sql) == "sha256(" \o sql \o ")"

equalNullable(a, b) ==
  IF a = NIL /\ b = NIL THEN TRUE
  ELSE IF a = NIL \/ b = NIL THEN FALSE
  ELSE a = b

TrimSpace(s) == IF s = " " THEN "" ELSE s

coalesceString(ptr, current) == IF ptr = NIL THEN current ELSE ptr

\* ----------------------------------------------------------------- state
VARIABLES
  mig,          \* the migrations row
  runs,         \* runs table: RunIds -> row (status "none": no such row)
  items,        \* run_items table: RunIds -> rows in id order
  approvals,    \* approvals table: set of rows
  targetActive, \* db_targets.is_active of each target
  targetEngine, \* db_targets.engine of each target
  bookkeeping,  \* migrate_hub_migrations row for mig.key on each target
  lock,         \* whether each target's advisory lock is held
  effects,      \* the SQL bodies whose effects are in place on each target
  inflight,     \* bag of the requests being served: pc and locals
  ncalls,       \* number of requests issued so far
  sqlLog,       \* history: SQL bodies sent to targets
  hist,         \* history: run status transitions <<run, from, to>>
  decided,      \* history: per run, the decisions of the decide calls that succeeded
  returned,     \* history: what the handler that returned last returned
  audit,        \* the audit_events insert of the handler that returned last
  toAudit,      \* the migration's audit events that handler has yet to insert
  auditEvents   \* audit_events: the rows about the migration

catalogVars == <<mig, runs, items, approvals, targetActive, targetEngine>>
targetVars == <<bookkeeping, lock, sqlLog, effects>>
vars == <<mig, runs, items, approvals, targetActive, targetEngine, bookkeeping, lock, effects, inflight,
          ncalls, sqlLog, hist, decided, returned, audit, toAudit, auditEvents>>

NoRun == [status |-> "none", run_type |-> NIL,
          checksum_up_at_request |-> NIL, checksum_down_at_request |-> NIL,
          executed_by |-> NIL]

NoMig == [sql_up |-> NIL, sql_down |-> NIL, checksum_up |-> NIL,
          checksum_down |-> NIL, version |-> 0, tx_mode |-> NIL]

NoRow == [checksum_up |-> NIL, tool_run_id |-> 0, applied_by |-> NIL]

\* The row an executed run of the migration's earlier version left.
OldRow == [checksum_up |-> checksum(OldSQLUp), tool_run_id |-> 0, applied_by |-> "u1"]

NoPatch == [sql_up |-> NIL, sql_down |-> NIL]

NoCall == [kind |-> "none", pc |-> "idle", actor |-> NIL, run |-> 0,
           patch |-> NoPatch, run_type |-> NIL,
           snapRun |-> NoRun, snapItems |-> <<>>, snapMig |-> NoMig,
           activeTargets |-> <<>>, idx |-> 0,
           firstErr |-> NIL, itemErr |-> NIL, sqlChanged |-> FALSE,
           ctxDone |-> FALSE, wrote |-> FALSE, invalidated |-> FALSE]

\* ------------------------------------------------------ requests, workers
One(k) == SetToBag({k})

InFlight == BagToSet(inflight)

\* What the caller of a handler gets.
Outcome(k, res) == [kind |-> k.kind, run |-> k.run, result |-> res, wrote |-> k.wrote]

\* Whether the HTTP handler calls audit.LogEvent before it responds with res:
\* after every successful command, and after a failed execute other than
\* not_found and checksum_mismatch.
Audits(kind, res) ==
  \/ res = "ok"
  \/ kind = "execute" /\ res \notin {"not_found", "checksum_mismatch"}

AuditOf(kind, res) == IF Audits(kind, res) THEN "pending" ELSE "none"

\* MigrationHandler.Update: the events it passes to audit.LogEvent, in the
\* order of the calls. k.snapMig is the migration UpdateMigration returned.
MigrationEvents(k, res) ==
  IF k.kind = "update" /\ res = "ok"
    THEN (IF k.invalidated
            THEN <<[action |-> "migration_approvals_invalidated",
                    payload |-> [version |-> k.snapMig.version]]>>
            ELSE <<>>)
         \o <<[action |-> "migration_updated",
                payload |-> [version |-> k.snapMig.version,
                             sql_changed |-> k.sqlChanged]]>>
    ELSE <<>>

Init ==
  /\ mig = [sql_up |-> InitialSQLUp, sql_down |-> NIL,
            checksum_up |-> checksum(InitialSQLUp), checksum_down |-> NIL,
            version |-> 1, tx_mode |-> "auto"]
  /\ runs = [r \in RunIds |-> NoRun]
  /\ items = [r \in RunIds |-> <<>>]
  /\ approvals = {}
  /\ targetActive = [t \in TargetSet |-> t = Targets[1]]
  /\ \E e \in Engines : targetEngine = [t \in TargetSet |-> e]
  /\ bookkeeping = [t \in TargetSet |-> NoRow]
  /\ effects = [t \in TargetSet |-> {}]
  /\ lock = [t \in TargetSet |-> FALSE]
  /\ inflight = EmptyBag
  /\ ncalls = 0
  /\ sqlLog = {}
  /\ hist = {}
  /\ decided = [r \in RunIds |-> <<>>]
  /\ returned = Outcome(NoCall, "none")
  /\ audit = "none"
  /\ toAudit = <<>>
  /\ auditEvents = {}

\* A request arrives and the handler is at label after its first statement.
Start(k, label) ==
  /\ ncalls < MaxCalls
  /\ ncalls' = ncalls + 1
  /\ inflight' = inflight (+) One([k EXCEPT !.pc = label])
  /\ UNCHANGED <<returned, audit, toAudit, auditEvents>>

\* ... or returns res from it.
StartReturn(k, res) ==
  /\ ncalls < MaxCalls
  /\ ncalls' = ncalls + 1
  /\ returned' = Outcome(k, res)
  /\ audit' = AuditOf(k.kind, res)
  /\ toAudit' = MigrationEvents(k, res)
  /\ UNCHANGED <<inflight, auditEvents>>

\* The handler of k moves to label, its locals now k2.  (wrote: history,
\* whether the handler has changed the catalog.)
Goto(k, k2, label) ==
  /\ inflight' = (inflight (-) One(k)) (+) One([k2 EXCEPT !.pc = label])
  /\ UNCHANGED <<ncalls, returned, audit, toAudit, auditEvents>>

\* The handler of k returns res, its locals now k2.
Return(k, k2, res) ==
  /\ inflight' = inflight (-) One(k)
  /\ returned' = Outcome(k2, res)
  /\ audit' = AuditOf(k2.kind, res)
  /\ toAudit' = MigrationEvents(k2, res)
  /\ UNCHANGED <<ncalls, auditEvents>>

\* UPDATE runs SET status = ... WHERE id = r: the table after the
\* statement, and the transition it made.
SetRunStatus(r, to) == [runs EXCEPT ![r].status = to]

Logged(r, to) == hist \cup {<<r, runs[r].status, to>>}

\* ----------------------------------------------------------- request_run
NewRunId ==
  CHOOSE r \in RunIds :
    runs[r].status = "none" /\ \A q \in RunIds : q < r => runs[q].status # "none"

\* The run ids requests are made with: those of the runs there are, and one
\* that is no run's.
RequestedRunIds ==
  {r \in RunIds : runs[r].status # "none" \/ r = NewRunId}

\* The check as it would be if rollback did not need sql_down.
RollbackNeverMissingSQL(runType, m) == FALSE

RollbackMissingSQL(runType, m) ==
  runType = "rollback" /\ (m.sql_down = NIL \/ TrimSpace(m.sql_down) = "")

ActiveTargets == SelectSeq(Targets, LAMBDA t : targetActive[t])

\* The item ids are fresh uuids: the id order of the items is any order of
\* the targets.
ItemOrders(ts) ==
  { p \in [1..Len(ts) -> {ts[i] : i \in 1..Len(ts)}] :
      \A i, j \in 1..Len(ts) : i # j => p[i] # p[j] }

NewRun(runType, m) ==
  [status |-> "awaiting_approval", run_type |-> runType,
   checksum_up_at_request |-> m.checksum_up,
   checksum_down_at_request |-> m.checksum_down,
   executed_by |-> NIL]

NewItem(t) == [target |-> t, status |-> "queued", error |-> NIL]

\* Requests made so far, which bounds the runs there can be.
Requested ==
  Cardinality({r \in RunIds : runs[r].status # "none"})
    + BagCardinality([k \in {q \in InFlight : q.kind = "request"} |-> inflight[k]])

RequestRun_GetMigration ==
  /\ Requested < MaxRequests
  /\ \E runType \in {"apply", "rollback"}, actor \in Actors :
       LET k == [NoCall EXCEPT !.kind = "request", !.actor = actor,
                               !.run_type = runType, !.snapMig = mig]
       IN IF RollbackMissingSQL(runType, mig)
            THEN StartReturn(k, "missing_sql_down")
            ELSE Start(k, "rq_targets")
  /\ UNCHANGED <<catalogVars, targetVars, hist, decided>>

\* The listing as it would be without the check for an empty list.
RequestRun_ListTargetsUnchecked(k) ==
  /\ k.pc = "rq_targets"
  /\ Goto(k, [k EXCEPT !.activeTargets = ActiveTargets], "rq_insert")
  /\ UNCHANGED <<catalogVars, targetVars, hist, decided>>

RequestRun_ListTargets(k) ==
  /\ k.pc = "rq_targets"
  /\ LET k2 == [k EXCEPT !.activeTargets = ActiveTargets] IN
       IF Len(ActiveTargets) = 0
         THEN Return(k, k2, "no_active_targets")
         ELSE Goto(k, k2, "rq_insert")
  /\ UNCHANGED <<catalogVars, targetVars, hist, decided>>

\* BEGIN; INSERT INTO runs ...; INSERT INTO run_items ... (each); COMMIT
RequestRun_Commit(k) ==
  /\ k.pc = "rq_insert"
  /\ \E order \in ItemOrders(k.activeTargets) :
       LET r == NewRunId IN
       /\ runs' = [runs EXCEPT ![r] = NewRun(k.run_type, k.snapMig)]
       /\ items' = [items EXCEPT ![r] = [i \in 1..Len(order) |-> NewItem(order[i])]]
       /\ Return(k, [k EXCEPT !.run = r, !.wrote = TRUE], "ok")
  /\ UNCHANGED <<mig, approvals, targetActive, targetEngine, targetVars, hist, decided>>

RequestRun_CommitFails(k) ==
  /\ k.pc = "rq_insert"
  /\ Return(k, k, "db_error")
  /\ UNCHANGED <<catalogVars, targetVars, hist, decided>>

\* --------------------------------------------------------- disable target
DisableDBTarget ==
  /\ \E t \in TargetSet :
       /\ targetActive[t]
       /\ targetActive' = [targetActive EXCEPT ![t] = FALSE]
  /\ StartReturn([NoCall EXCEPT !.kind = "disable_target"], "ok")
  /\ UNCHANGED <<mig, runs, items, approvals, targetEngine, targetVars, hist, decided>>

\* ------------------------------------------------------- decide (approve)
\* The guard as it would be if an approved run could be decided again.
DecideAlsoApproved(status) == status \in {"awaiting_approval", "approved"}

DecidePrecondition(status) == status = "awaiting_approval"

\* The comparison as it would be without the down-checksum.
ChecksumsMatchUpOnly(m, run) == m.checksum_up = run.checksum_up_at_request

ChecksumsMatch(m, run) ==
  /\ m.checksum_up = run.checksum_up_at_request
  /\ equalNullable(m.checksum_down, run.checksum_down_at_request)

\* uuid.New(): an id no row had before.
RECURSIVE Decisions(_)
Decisions(rs) ==
  IF rs = {} THEN 0
  ELSE LET r == CHOOSE x \in rs : TRUE IN Len(decided[r]) + Decisions(rs \ {r})

NewApprovalId == 1 + Decisions(RunIds)

ApprovalRow(k, decision) ==
  [id |-> NewApprovalId, run |-> k.run, decision |-> decision,
   checksum_up |-> k.snapRun.checksum_up_at_request,
   checksum_down |-> k.snapRun.checksum_down_at_request]

\* getRun, and the status check that follows it in ApproveRun and DenyRun.
Decide_GetRun(kind, label, r, actor) ==
  /\ LET k == [NoCall EXCEPT !.kind = kind, !.actor = actor, !.run = r,
                             !.snapRun = runs[r]]
     IN IF runs[r].status = "none" THEN StartReturn(k, "not_found")
        ELSE IF ~DecidePrecondition(runs[r].status) THEN StartReturn(k, "invalid_status")
        ELSE Start(k, label)
  /\ UNCHANGED <<catalogVars, targetVars, hist, decided>>

ApproveRun_GetRun ==
  \E r \in RequestedRunIds, actor \in Actors : Decide_GetRun("approve", "ap_mig", r, actor)

ApproveRun_GetMigration(k) ==
  /\ k.pc = "ap_mig"
  /\ LET k2 == [k EXCEPT !.snapMig = mig] IN
       IF ChecksumsMatch(mig, k.snapRun)
         THEN Goto(k, k2, "ap_tx")
         ELSE Return(k, k2, "checksum_mismatch")
  /\ UNCHANGED <<catalogVars, targetVars, hist, decided>>

\* The decision as it would be with the status update committed on its own.
DecideTxNoInsert(k, decision) ==
  /\ runs' = SetRunStatus(k.run, decision)
  /\ hist' = Logged(k.run, decision)
  /\ decided' = [decided EXCEPT ![k.run] = Append(@, decision)]
  /\ Return(k, [k EXCEPT !.snapRun.status = decision, !.wrote = TRUE], "ok")
  /\ UNCHANGED <<mig, items, approvals, targetActive, targetEngine, targetVars>>

\* BEGIN; UPDATE runs SET status = ... WHERE id = $4; INSERT INTO approvals ...; COMMIT
DecideTx(k, decision) ==
  /\ runs' = SetRunStatus(k.run, decision)
  /\ hist' = Logged(k.run, decision)
  /\ approvals' = approvals \cup {ApprovalRow(k, decision)}
  /\ decided' = [decided EXCEPT ![k.run] = Append(@, decision)]
  /\ Return(k, [k EXCEPT !.snapRun.status = decision, !.wrote = TRUE], "ok")
  /\ UNCHANGED <<mig, items, targetActive, targetEngine, targetVars>>

\* A statement of the transaction or its commit fails: rolled back.
DecideTxFails(k) ==
  /\ Return(k, k, "db_error")
  /\ UNCHANGED <<catalogVars, targetVars, hist, decided>>

ApproveRun_Commit(k) ==
  /\ k.pc = "ap_tx"
  /\ DecideTx(k, "approved")

ApproveRun_CommitFails(k) ==
  /\ k.pc = "ap_tx"
  /\ DecideTxFails(k)

\* ---------------------------------------------------------- decide (deny)
DenyRun_GetRun ==
  \E r \in RequestedRunIds, actor \in Actors : Decide_GetRun("deny", "dn_tx", r, actor)

DenyRun_Commit(k) ==
  /\ k.pc = "dn_tx"
  /\ DecideTx(k, "denied")

DenyRun_CommitFails(k) ==
  /\ k.pc = "dn_tx"
  /\ DecideTxFails(k)

\* ------------------------------------------------------- update_migration
PatchedSQLUp(current, patch) == coalesceString(patch.sql_up, current.sql_up)

PatchedSQLDown(current, patch) ==
  IF patch.sql_down # NIL
    THEN (IF TrimSpace(patch.sql_down) = "" THEN NIL ELSE TrimSpace(patch.sql_down))
    ELSE current.sql_down

\* The comparison as it would be if only sql_up were compared.
SQLChangedUpOnly(current, patch) ==
  PatchedSQLUp(current, patch) # current.sql_up

SQLChanged(current, patch) ==
  LET sqlUp == PatchedSQLUp(current, patch)
      sqlDown == PatchedSQLDown(current, patch)
  IN \/ sqlUp # current.sql_up
     \/ (sqlDown = NIL /\ current.sql_down # NIL)
     \/ (sqlDown # NIL /\ current.sql_down = NIL)
     \/ (sqlDown # NIL /\ current.sql_down # NIL /\ sqlDown # current.sql_down)

\* The row UpdateMigration writes, computed from the row it read.
UpdatedMigration(current, patch) ==
  LET sqlUp == PatchedSQLUp(current, patch)
      sqlDown == PatchedSQLDown(current, patch)
  IN IF SQLChanged(current, patch)
       THEN [sql_up |-> sqlUp, sql_down |-> sqlDown,
             checksum_up |-> checksum(sqlUp),
             checksum_down |-> IF sqlDown # NIL THEN checksum(sqlDown) ELSE NIL,
             version |-> current.version + 1,
             tx_mode |-> current.tx_mode]
       ELSE [sql_up |-> sqlUp, sql_down |-> sqlDown,
             checksum_up |-> current.checksum_up,
             checksum_down |-> current.checksum_down,
             version |-> current.version,
             tx_mode |-> current.tx_mode]

UpdateMigration_GetMigration ==
  /\ \E patch \in Patches, actor \in Actors :
       LET k == [NoCall EXCEPT !.kind = "update", !.actor = actor,
                               !.patch = patch, !.snapMig = mig,
                               !.sqlChanged = SQLChanged(mig, patch)]
       IN IF TrimSpace(PatchedSQLUp(mig, patch)) = ""
            THEN StartReturn(k, "validation_error")
            ELSE Start(k, "up_write")
  /\ UNCHANGED <<catalogVars, targetVars, hist, decided>>

UpdateMigration_Write(k) ==
  /\ k.pc = "up_write"
  /\ mig' = UpdatedMigration(k.snapMig, k.patch)
  /\ LET k2 == [k EXCEPT !.wrote = TRUE,
                          !.snapMig = UpdatedMigration(k.snapMig, k.patch)] IN
       IF k.sqlChanged THEN Goto(k, k2, "up_delete") ELSE Return(k, k2, "ok")
  /\ UNCHANGED <<runs, items, approvals, targetActive, targetEngine, targetVars, hist, decided>>

UpdateMigration_WriteFails(k) ==
  /\ k.pc = "up_write"
  /\ Return(k, k, "db_error")
  /\ UNCHANGED <<catalogVars, targetVars, hist, decided>>

\* MigrationHandler.Update: DELETE FROM approvals WHERE migration_id = $1
DeleteApprovalsForMigration(k) ==
  /\ k.pc = "up_delete"
  /\ approvals' = {}
  /\ Return(k, [k EXCEPT !.invalidated = TRUE], "ok")
  /\ UNCHANGED <<mig, runs, items, targetActive, targetEngine, targetVars, hist, decided>>

\* The delete's error is logged, the handler skips the event
\* migration_approvals_invalidated and goes on as usual.
DeleteApprovalsForMigrationFails(k) ==
  /\ k.pc = "up_delete"
  /\ Return(k, k, "ok")
  /\ UNCHANGED <<catalogVars, targetVars, hist, decided>>

\* ------------------------------------------------------------ execute_run
\* The guard as it would be if any decided run could be executed.
ExecuteAnyDecided(status) == status \in {"approved", "denied"}

ExecutePrecondition(status) == status = "approved"

\* The loop skips the items whose status, as listed, is not queued.
NextQueued(its, from) ==
  IF \E i \in from..Len(its) : its[i].status = "queued"
    THEN CHOOSE i \in from..Len(its) :
           /\ its[i].status = "queued"
           /\ \A j \in from..(i - 1) : its[j].status # "queued"
    ELSE Len(its) + 1

\* Where the loop is with index i: at item i or, past the end, after it.
LoopLabel(i, its) == IF i > Len(its) THEN "ex_finish" ELSE "ex_item"

CurItem(k) == k.snapItems[k.idx]

\* UPDATE run_items SET status = COALESCE($2, status), error = COALESCE($3, error) WHERE id = $1
updateRunItemStatus(r, i, status, errMsg) ==
  [items EXCEPT ![r][i].status = status,
                ![r][i].error = IF errMsg = NIL THEN @ ELSE errMsg]

ExecuteRun_GetRunBy(actors) ==
  /\ \E r \in RequestedRunIds, actor \in actors :
       LET k == [NoCall EXCEPT !.kind = "execute", !.actor = actor, !.run = r,
                               !.snapRun = runs[r]]
       IN IF runs[r].status = "none"
            THEN StartReturn(k, "not_found")
            ELSE Start(k, "ex_items")
  /\ UNCHANGED <<catalogVars, targetVars, hist, decided>>

ExecuteRun_GetRun == ExecuteRun_GetRunBy(Actors)

ExecuteRun_ListRunItems(k) ==
  /\ k.pc = "ex_items"
  /\ LET k2 == [k EXCEPT !.snapItems = items[k.run]] IN
       IF ExecutePrecondition(k.snapRun.status)
         THEN Goto(k, k2, "ex_mig")
         ELSE Return(k, k2, "not_approved")
  /\ UNCHANGED <<catalogVars, targetVars, hist, decided>>

ExecuteRun_GetMigration(k) ==
  /\ k.pc = "ex_mig"
  /\ LET k2 == [k EXCEPT !.snapMig = mig] IN
       IF ChecksumsMatch(mig, k.snapRun)
         THEN Goto(k, k2, "ex_start")
         ELSE Return(k, k2, "checksum_mismatch")
  /\ UNCHANGED <<catalogVars, targetVars, hist, decided>>

\* UPDATE runs SET status = 'running', executed_by = $1 WHERE id = $3
ExecuteRun_MarkRunning(k) ==
  /\ k.pc = "ex_start"
  /\ LET first == NextQueued(k.snapItems, 1) IN
       /\ runs' = [runs EXCEPT ![k.run].status = "running",
                               ![k.run].executed_by = k.actor]
       /\ hist' = Logged(k.run, "running")
       /\ Goto(k, [k EXCEPT !.snapRun.status = "running",
                            !.snapRun.executed_by = k.actor,
                            !.idx = first, !.wrote = TRUE],
               LoopLabel(first, k.snapItems))
  /\ UNCHANGED <<mig, items, approvals, targetActive, targetEngine, targetVars, decided>>

ExecuteRun_MarkRunningFails(k) ==
  /\ k.pc = "ex_start"
  /\ Return(k, k, "db_error")
  /\ UNCHANGED <<catalogVars, targetVars, hist, decided>>

ExecuteRun_ItemRunning(k) ==
  /\ k.pc = "ex_item"
  /\ items' = updateRunItemStatus(k.run, k.idx, "running", NIL)
  /\ Goto(k, [k EXCEPT !.snapItems[k.idx].status = "running", !.itemErr = NIL],
          "ex_target")
  /\ UNCHANGED <<mig, runs, approvals, targetActive, targetEngine, targetVars, hist, decided>>

ExecuteRun_ItemRunningFails(k) ==
  /\ k.pc = "ex_item"
  /\ Goto(k, [k EXCEPT !.firstErr = "db_error"], "ex_finish")
  /\ UNCHANGED <<catalogVars, targetVars, hist, decided>>

\* ---------------------------------------------------- executeItem (target)
ItemFails(k, err, label) == Goto(k, [k EXCEPT !.itemErr = err], label)

\* The row the executor inserts into migrate_hub_migrations.
AppliedRow(k) ==
  [checksum_up |-> k.snapMig.checksum_up,
   tool_run_id |-> k.run,
   applied_by |-> k.snapRun.executed_by]

\* The SQL body the executor sends to the target.
SQLBody(k) == k.snapMig.sql_up

\* The target read as it would be without the is_active check.
ExecuteItem_GetDBTargetAnyActivity(k) ==
  /\ k.pc = "ex_target"
  /\ Goto(k, k, "ex_lock")
  /\ UNCHANGED <<catalogVars, targetVars, hist, decided>>

ExecuteItem_GetDBTarget(k) ==
  /\ k.pc = "ex_target"
  /\ IF targetActive[CurItem(k).target]
       THEN Goto(k, k, "ex_lock")
       ELSE ItemFails(k, "target disabled", "ex_item_done")
  /\ UNCHANGED <<catalogVars, targetVars, hist, decided>>

\* The lock statement as it would be if it were granted without waiting.
ExecuteItem_LockNoWait(k) ==
  /\ k.pc = "ex_lock"
  /\ lock' = [lock EXCEPT ![CurItem(k).target] = TRUE]
  /\ Goto(k, k, "ex_lookup")
  /\ UNCHANGED <<catalogVars, bookkeeping, sqlLog, effects, hist, decided>>

\* pg_advisory_lock / GET_LOCK on a fresh connection: granted when free.
ExecuteItem_Lock(k) ==
  /\ k.pc = "ex_lock"
  /\ ~lock[CurItem(k).target]
  /\ lock' = [lock EXCEPT ![CurItem(k).target] = TRUE]
  /\ Goto(k, k, "ex_lookup")
  /\ UNCHANGED <<catalogVars, bookkeeping, sqlLog, effects, hist, decided>>

\* GET_LOCK(name, 10) answers 0 when the lock stays held for 10 s.
ExecuteItem_LockTimeout(k) ==
  /\ k.pc = "ex_lock"
  /\ lock[CurItem(k).target]
  /\ targetEngine[CurItem(k).target] = "mysql"
  /\ ItemFails(k, "could not acquire lock", "ex_item_done")
  /\ UNCHANGED <<catalogVars, targetVars, hist, decided>>

\* The request's context (middleware.Timeout(60 s)) ends while the call
\* waits for the lock: the lock statement returns the context's error, and
\* every later statement under that context fails as well.
ExecuteItem_LockDeadline(k) ==
  /\ k.pc = "ex_lock"
  /\ lock[CurItem(k).target]
  /\ Goto(k, [k EXCEPT !.itemErr = "lock: context deadline exceeded",
                       !.ctxDone = TRUE],
          "ex_item_done")
  /\ UNCHANGED <<catalogVars, targetVars, hist, decided>>

\* The lookup as it would be if an existing row did not end the item.
ExecuteItem_LookupNoSkip(k) ==
  /\ k.pc = "ex_lookup"
  /\ Goto(k, k, "ex_body")
  /\ UNCHANGED <<catalogVars, targetVars, hist, decided>>

\* The lookup as it would be if a row with another checksum were ignored.
ExecuteItem_LookupNoConflict(k) ==
  /\ k.pc = "ex_lookup"
  /\ IF bookkeeping[CurItem(k).target].checksum_up = k.snapMig.checksum_up
       THEN ItemFails(k, "already applied", "ex_unlock")
       ELSE Goto(k, k, "ex_body")
  /\ UNCHANGED <<catalogVars, targetVars, hist, decided>>

\* SELECT checksum_up FROM migrate_hub_migrations WHERE migration_key = $1
ExecuteItem_Lookup(k) ==
  /\ k.pc = "ex_lookup"
  /\ LET row == bookkeeping[CurItem(k).target] IN
       IF row = NoRow THEN Goto(k, k, "ex_body")
       ELSE IF row.checksum_up = k.snapMig.checksum_up
         THEN ItemFails(k, "already applied", "ex_unlock")
         ELSE ItemFails(k, "migration already applied with different checksum", "ex_unlock")
  /\ UNCHANGED <<catalogVars, targetVars, hist, decided>>

\* The mode switch as it would be if no mode opened a transaction.
InTransactionNever(m) == FALSE

\* single_transaction and auto run the body and the insert in a transaction.
InTransaction(m) == m.tx_mode \in {"single_transaction", "auto"}

\* The target's effects with the body of k in place.
Applied(k) == [effects EXCEPT ![CurItem(k).target] = @ \cup {SQLBody(k)}]

\* exec.Exec(ctx, mig.SQLUp): in a transaction the body's effects are in
\* place at the commit, outside one at once.
ExecuteItem_Body(k) ==
  /\ k.pc = "ex_body"
  /\ sqlLog' = sqlLog \cup {[run |-> k.run, target |-> CurItem(k).target,
                             sql |-> SQLBody(k)]}
  /\ effects' = IF InTransaction(k.snapMig) THEN effects ELSE Applied(k)
  /\ Goto(k, k, "ex_insert")
  /\ UNCHANGED <<catalogVars, bookkeeping, lock, hist, decided>>

ExecuteItem_BodyFails(k) ==
  /\ k.pc = "ex_body"
  /\ ItemFails(k, "sql error", "ex_unlock")
  /\ UNCHANGED <<catalogVars, targetVars, hist, decided>>

\* INSERT INTO migrate_hub_migrations ..., and the commit when in a
\* transaction.
ExecuteItem_Insert(k) ==
  /\ k.pc = "ex_insert"
  /\ bookkeeping[CurItem(k).target] = NoRow
  /\ bookkeeping' = [bookkeeping EXCEPT ![CurItem(k).target] = AppliedRow(k)]
  /\ effects' = IF InTransaction(k.snapMig) THEN Applied(k) ELSE effects
  /\ Goto(k, k, "ex_unlock")
  /\ UNCHANGED <<catalogVars, lock, sqlLog, hist, decided>>

\* The failing insert as it would be if the body were undone with it in
\* every mode.
ExecuteItem_InsertFailsUndoes(k) ==
  /\ k.pc = "ex_insert"
  /\ effects' = [effects EXCEPT ![CurItem(k).target] = @ \ {SQLBody(k)}]
  /\ ItemFails(k, "sql error", "ex_unlock")
  /\ UNCHANGED <<catalogVars, bookkeeping, lock, sqlLog, hist, decided>>

ExecuteItem_InsertFails(k) ==
  /\ k.pc = "ex_insert"
  /\ ItemFails(k, "sql error", "ex_unlock")
  /\ UNCHANGED <<catalogVars, targetVars, hist, decided>>

\* deferred: pg_advisory_unlock / RELEASE_LOCK and closing the connection
ExecuteItem_Unlock(k) ==
  /\ k.pc = "ex_unlock"
  /\ lock' = [lock EXCEPT ![CurItem(k).target] = FALSE]
  /\ Goto(k, k, "ex_item_done")
  /\ UNCHANGED <<catalogVars, bookkeeping, sqlLog, effects, hist, decided>>

\* ------------------------------------------------- ExecuteRun, after item
\* The item's outcome as it would be if "already applied" were an error
\* like any other.
ItemOutcomeNoSkip(err) == IF err # NIL THEN "failed" ELSE "executed"

ItemOutcome(err) ==
  IF err = "already applied" THEN "skipped"
  ELSE IF err # NIL THEN "failed"
  ELSE "executed"

ItemMessage(err) ==
  IF err = "already applied" THEN "already applied, skipped" ELSE err

\* The locals after the item: the item's status, firstErr, the next index.
AfterItem(k) ==
  LET out == ItemOutcome(k.itemErr) IN
  [k EXCEPT !.snapItems[k.idx].status = out,
            !.snapItems[k.idx].error = IF out = "failed" THEN k.itemErr ELSE NIL,
            !.firstErr = IF out = "failed" THEN k.itemErr ELSE @,
            !.idx = IF out = "failed" THEN @ ELSE NextQueued(k.snapItems, k.idx + 1)]

AfterItemLabel(k) ==
  IF ItemOutcome(k.itemErr) = "failed"
    THEN "ex_finish"
    ELSE LoopLabel(NextQueued(k.snapItems, k.idx + 1), k.snapItems)

ExecuteRun_ItemDone(k) ==
  /\ k.pc = "ex_item_done"
  /\ ~k.ctxDone
  /\ items' = updateRunItemStatus(k.run, k.idx, ItemOutcome(k.itemErr),
                                  ItemMessage(k.itemErr))
  /\ Goto(k, AfterItem(k), AfterItemLabel(k))
  /\ UNCHANGED <<mig, runs, approvals, targetActive, targetEngine, targetVars, hist, decided>>

\* The status write's error is dropped (_ = e.updateRunItemStatus(...)).
ExecuteRun_ItemDoneWriteFails(k) ==
  /\ k.pc = "ex_item_done"
  /\ Goto(k, AfterItem(k), AfterItemLabel(k))
  /\ UNCHANGED <<catalogVars, targetVars, hist, decided>>

FinalStatus(k) == IF k.firstErr # NIL THEN "failed" ELSE "executed"

ExecuteResult(k) == IF k.firstErr # NIL THEN "target_error" ELSE "ok"

\* UPDATE runs SET status = 'failed' | 'executed' WHERE id = $2
ExecuteRun_Finish(k) ==
  /\ k.pc = "ex_finish"
  /\ ~k.ctxDone
  /\ runs' = SetRunStatus(k.run, FinalStatus(k))
  /\ hist' = Logged(k.run, FinalStatus(k))
  /\ Return(k, [k EXCEPT !.snapRun.status = FinalStatus(k)], ExecuteResult(k))
  /\ UNCHANGED <<mig, items, approvals, targetActive, targetEngine, targetVars, decided>>

\* The final write's error is dropped (_, _ = e.pool.Exec(...)).
ExecuteRun_FinishWriteFails(k) ==
  /\ k.pc = "ex_finish"
  /\ Return(k, [k EXCEPT !.snapRun.status = FinalStatus(k)], ExecuteResult(k))
  /\ UNCHANGED <<catalogVars, targetVars, hist, decided>>

\* ---------------------------------------------------------- specification
Next ==
  \/ RequestRun_GetMigration
  \/ DisableDBTarget
  \/ ApproveRun_GetRun
  \/ DenyRun_GetRun
  \/ UpdateMigration_GetMigration
  \/ ExecuteRun_GetRun
  \/ \E k \in InFlight : RequestRun_ListTargets(k)
  \/ \E k \in InFlight : RequestRun_Commit(k)
  \/ \E k \in InFlight : RequestRun_CommitFails(k)
  \/ \E k \in InFlight : ApproveRun_GetMigration(k)
  \/ \E k \in InFlight : ApproveRun_Commit(k)
  \/ \E k \in InFlight : ApproveRun_CommitFails(k)
  \/ \E k \in InFlight : DenyRun_Commit(k)
  \/ \E k \in InFlight : DenyRun_CommitFails(k)
  \/ \E k \in InFlight : UpdateMigration_Write(k)
  \/ \E k \in InFlight : UpdateMigration_WriteFails(k)
  \/ \E k \in InFlight : DeleteApprovalsForMigration(k)
  \/ \E k \in InFlight : DeleteApprovalsForMigrationFails(k)
  \/ \E k \in InFlight : ExecuteRun_ListRunItems(k)
  \/ \E k \in InFlight : ExecuteRun_GetMigration(k)
  \/ \E k \in InFlight : ExecuteRun_MarkRunning(k)
  \/ \E k \in InFlight : ExecuteRun_MarkRunningFails(k)
  \/ \E k \in InFlight : ExecuteRun_ItemRunning(k)
  \/ \E k \in InFlight : ExecuteRun_ItemRunningFails(k)
  \/ \E k \in InFlight : ExecuteItem_GetDBTarget(k)
  \/ \E k \in InFlight : ExecuteItem_Lock(k)
  \/ \E k \in InFlight : ExecuteItem_LockTimeout(k)
  \/ \E k \in InFlight : ExecuteItem_LockDeadline(k)
  \/ \E k \in InFlight : ExecuteItem_Lookup(k)
  \/ \E k \in InFlight : ExecuteItem_Body(k)
  \/ \E k \in InFlight : ExecuteItem_BodyFails(k)
  \/ \E k \in InFlight : ExecuteItem_Insert(k)
  \/ \E k \in InFlight : ExecuteItem_InsertFails(k)
  \/ \E k \in InFlight : ExecuteItem_Unlock(k)
  \/ \E k \in InFlight : ExecuteRun_ItemDone(k)
  \/ \E k \in InFlight : ExecuteRun_ItemDoneWriteFails(k)
  \/ \E k \in InFlight : ExecuteRun_Finish(k)
  \/ \E k \in InFlight : ExecuteRun_FinishWriteFails(k)

Spec == Init /\ [][Next]_vars

\* --------------------------------------------------- the execution engine
\* The catalog after a migration was created with sql_down and every run of
\* the table was requested for it and approved; nothing has been executed
\* yet.  Run 1 is an apply run requested when the db-set had the one target
\* T1; T2 was added to the set before the later runs, apply or rollback,
\* were requested.
InitExec ==
  /\ \E mode \in TxModes :
       mig = [sql_up |-> InitialSQLUp, sql_down |-> InitialSQLDown,
              checksum_up |-> checksum(InitialSQLUp),
              checksum_down |-> checksum(InitialSQLDown),
              version |-> 1, tx_mode |-> mode]
  /\ \E runType \in {f \in [RunIds -> {"apply", "rollback"}] : f[1] = "apply"} :
       runs = [r \in RunIds |-> [NewRun(runType[r], mig) EXCEPT !.status = "approved"]]
  /\ items = [r \in RunIds |->
                IF r = 1 THEN <<NewItem(Targets[1])>>
                ELSE [i \in 1..Len(Targets) |-> NewItem(Targets[i])]]
  /\ approvals = {[id |-> r, run |-> r, decision |-> "approved",
                   checksum_up |-> mig.checksum_up,
                   checksum_down |-> mig.checksum_down] : r \in RunIds}
  /\ targetActive = [t \in TargetSet |-> TRUE]
  /\ \E e \in Engines : targetEngine = [t \in TargetSet |-> e]
  /\ \E old \in {NoRow, OldRow} :
       bookkeeping = [t \in TargetSet |-> IF t = Targets[2] THEN old ELSE NoRow]
  /\ effects = [t \in TargetSet |-> IF bookkeeping[t] = NoRow THEN {} ELSE {OldSQLUp}]
  /\ lock = [t \in TargetSet |-> FALSE]
  /\ inflight = EmptyBag
  /\ ncalls = 0
  /\ sqlLog = {}
  /\ hist = {<<r, "awaiting_approval", "approved">> : r \in RunIds}
  /\ decided = [r \in RunIds |-> <<"approved">>]
  /\ returned = Outcome(NoCall, "none")
  /\ audit = "none"
  /\ toAudit = <<>>
  /\ auditEvents = {}

\* Execute requests only, of either user.
ExecuteRequest == ncalls < MaxExecutes /\ ExecuteRun_GetRunBy(Executors)

NextExec ==
  \/ ExecuteRequest
  \/ \E k \in InFlight : ExecuteRun_ListRunItems(k)
  \/ \E k \in InFlight : ExecuteRun_GetMigration(k)
  \/ \E k \in InFlight : ExecuteRun_MarkRunning(k)
  \/ \E k \in InFlight : ExecuteRun_MarkRunningFails(k)
  \/ \E k \in InFlight : ExecuteRun_ItemRunning(k)
  \/ \E k \in InFlight : ExecuteRun_ItemRunningFails(k)
  \/ \E k \in InFlight : ExecuteItem_GetDBTarget(k)
  \/ \E k \in InFlight : ExecuteItem_Lock(k)
  \/ \E k \in InFlight : ExecuteItem_LockTimeout(k)
  \/ \E k \in InFlight : ExecuteItem_LockDeadline(k)
  \/ \E k \in InFlight : ExecuteItem_Lookup(k)
  \/ \E k \in InFlight : ExecuteItem_Body(k)
  \/ \E k \in InFlight : ExecuteItem_BodyFails(k)
  \/ \E k \in InFlight : ExecuteItem_Insert(k)
  \/ \E k \in InFlight : ExecuteItem_InsertFails(k)
  \/ \E k \in InFlight : ExecuteItem_Unlock(k)
  \/ \E k \in InFlight : ExecuteRun_ItemDone(k)
  \/ \E k \in InFlight : ExecuteRun_ItemDoneWriteFails(k)
  \/ \E k \in InFlight : ExecuteRun_Finish(k)
  \/ \E k \in InFlight : ExecuteRun_FinishWriteFails(k)

ExecSpec == InitExec /\ [][NextExec]_vars

\* ------------------------------------------------------------ audit events
\* The handler's events after the one being inserted, and the status of its
\* audit inserts after this one: the handler has another to make, or this
\* was its last.
RestToAudit == IF toAudit = <<>> THEN <<>> ELSE Tail(toAudit)

IsLastEvent(status) == IF Len(toAudit) > 1 THEN "pending" ELSE status

\* INSERT INTO audit_events ... succeeds.
LogEvent ==
  /\ audit = "pending"
  /\ audit' = IsLastEvent("written")
  /\ toAudit' = RestToAudit
  /\ auditEvents' = IF toAudit = <<>> THEN auditEvents
                                       ELSE auditEvents \cup {Head(toAudit)}
  /\ UNCHANGED <<catalogVars, targetVars, inflight, ncalls, hist, decided, returned>>

\* The failing insert as it would be if the handler returned its error.
LogEvent_FailsBlocks ==
  /\ audit = "pending"
  /\ audit' = "failed"
  /\ toAudit' = <<>>
  /\ returned' = [returned EXCEPT !.result = "audit_failed"]
  /\ UNCHANGED <<catalogVars, targetVars, inflight, ncalls, hist, decided, auditEvents>>

\* The insert fails: the error is logged and the handler drops it
\* (_ = audit.LogEvent(...)) and responds as it was about to.
LogEvent_Fails ==
  /\ audit = "pending"
  /\ audit' = IsLastEvent("failed")
  /\ toAudit' = RestToAudit
  /\ UNCHANGED <<catalogVars, targetVars, inflight, ncalls, hist, decided, returned, auditEvents>>

\* The commands with the audit insert that ends their handlers; the insert
\* touches only audit_events, which no command reads, and is taken right
\* after the handler's last statement.
NextAudit ==
  \/ audit # "pending" /\ Next
  \/ LogEvent
  \/ LogEvent_Fails

AuditSpec == Init /\ [][NextAudit]_vars

\* ------------------------------------------------------------ properties
\* What a step did, read off the state before and after it.
Moved(k) == CopiesIn(k, inflight') < CopiesIn(k, inflight)

CallStarted == ncalls' = ncalls + 1

\* The request started in this step returned in this same step.
StartedAndReturned == CallStarted /\ inflight' = inflight

NewCalls ==
  {k \in BagToSet(inflight') : CopiesIn(k, inflight') > CopiesIn(k, inflight)}

DecideKinds == {"approve", "deny"}

RowsOf(r) == {a \in approvals : a.run = r}

\* The migration's current checksums differ from the run's snapshot.
Edited(r) ==
  \/ mig.checksum_up # runs[r].checksum_up_at_request
  \/ (mig.checksum_down = NIL) # (runs[r].checksum_down_at_request = NIL)
  \/ mig.checksum_down # runs[r].checksum_down_at_request

\* C1: whenever a migration SQL body was executed on a target for run R, R
\* went awaiting_approval -> approved (by decide(approved), the only writer
\* of approved), and the text executed is the text whose checksum is
\* R.checksum_up_at_request.
C1_ApprovalGate ==
  \A e \in sqlLog :
    /\ <<e.run, "awaiting_approval", "approved">> \in hist
    /\ checksum(e.sql) = runs[e.run].checksum_up_at_request

\* C2: a run is created awaiting_approval and its status only moves
\* awaiting_approval -> approved | denied, approved -> running,
\* running -> executed | failed.
AllowedTransitions ==
  { <<"none", "awaiting_approval">>,
    <<"awaiting_approval", "approved">>, <<"awaiting_approval", "denied">>,
    <<"approved", "running">>,
    <<"running", "executed">>, <<"running", "failed">> }

C2_StateMachine ==
  [][\A r \in RunIds :
       runs'[r].status # runs[r].status =>
         <<runs[r].status, runs'[r].status>> \in AllowedTransitions]_vars

\* C3: once a run's status is denied it never changes again.
C3_DeniedTerminal ==
  [][\A r \in RunIds : runs[r].status = "denied" => runs'[r].status = "denied"]_vars

\* C4: a decide (approve or deny) on a run whose status is not
\* awaiting_approval is rejected with invalid_status, and the run row and
\* the approvals table are left unchanged.
C4_DecideRejected ==
  [][CallStarted =>
       /\ \A k \in NewCalls :
            k.kind \in DecideKinds => runs[k.run].status = "awaiting_approval"
       /\ ( /\ StartedAndReturned
            /\ returned'.kind \in DecideKinds
            /\ runs[returned'.run].status \notin {"none", "awaiting_approval"} )
          => /\ returned'.result = "invalid_status"
             /\ ~returned'.wrote
             /\ runs' = runs
             /\ approvals' = approvals]_vars

C4_Witness ==
  /\ returned.kind \in DecideKinds
  /\ returned.result = "invalid_status"
  /\ runs[returned.run].status \in {"approved", "denied", "running", "executed", "failed"}

\* C5: decide(approved) on an awaiting_approval run whose migration's
\* current checksums, when the call reads the migration, differ from the
\* run's snapshot fails with checksum_mismatch; the run and the approvals
\* table are left as they were.
C5_ApproveChecksumMismatch ==
  [][\A k \in InFlight :
       (k.kind = "approve" /\ k.pc = "ap_mig" /\ Moved(k) /\ Edited(k.run)) =>
         /\ inflight' = inflight (-) One(k)
         /\ returned' = [kind |-> "approve", run |-> k.run,
                         result |-> "checksum_mismatch", wrote |-> FALSE]
         /\ runs' = runs
         /\ approvals' = approvals]_vars

C5_Witness ==
  /\ returned.kind = "approve"
  /\ returned.result = "checksum_mismatch"
  /\ runs[returned.run].status = "awaiting_approval"
  /\ Edited(returned.run)
  /\ RowsOf(returned.run) = {}

\* C6: no run status transition (to approved, denied or running) is made
\* while the migration's current checksums differ from the run's snapshot.
C6_EveryTransitionChecks ==
  [][\A r \in RunIds :
       ( /\ runs'[r].status # runs[r].status
         /\ runs'[r].status \in {"approved", "denied", "running"} )
       => ~Edited(r)]_vars

\* C7: execute checks, in this order, that the run exists, that its status
\* is approved and that the migration's checksums match the run's snapshot;
\* a failed check returns an error, leaves the run and its items unmodified
\* and contacts no target.
ExecuteRejected(k, result) ==
  /\ inflight' = inflight (-) One(k)
  /\ returned' = [kind |-> "execute", run |-> k.run, result |-> result, wrote |-> FALSE]
  /\ UNCHANGED <<catalogVars, targetVars>>

C7_ExecutePreconditions ==
  [][/\ CallStarted =>
          /\ \A k \in NewCalls : k.kind = "execute" => runs[k.run].status # "none"
          /\ (StartedAndReturned /\ returned'.kind = "execute") =>
               /\ runs[returned'.run].status = "none"
               /\ returned'.result = "not_found"
               /\ ~returned'.wrote
               /\ UNCHANGED <<catalogVars, targetVars>>
     /\ \A k \in InFlight :
          (k.kind = "execute" /\ Moved(k)) =>
            /\ (k.pc = "ex_items" /\ k.snapRun.status # "approved") =>
                 ExecuteRejected(k, "not_approved")
            /\ (k.pc \in {"ex_items", "ex_mig"}) =>
                 UNCHANGED <<catalogVars, targetVars>>
            /\ (k.pc = "ex_mig") => k.snapRun.status = "approved"
            /\ (k.pc = "ex_mig" /\ Edited(k.run)) =>
                 ExecuteRejected(k, "checksum_mismatch")
            /\ (k.pc = "ex_start") =>
                 k.snapRun.status = "approved" /\ ~k.wrote]_vars

C7_Witness ==
  /\ returned.kind = "execute"
  /\ returned.result = "checksum_mismatch"
  /\ ~returned.wrote
  /\ runs[returned.run].status = "approved"
  /\ Edited(returned.run)
  /\ \A i \in 1..Len(items[returned.run]) : items[returned.run][i].status = "queued"
  /\ sqlLog = {}

\* C8: no run ever has more than one Approval row written for it, and an
\* approved row carries the run's checksum_up_at_request.
C8_OneApprovalRow ==
  \A r \in RunIds :
    /\ Cardinality(RowsOf(r)) <= 1
    /\ \A a \in RowsOf(r) :
         a.decision = "approved" => a.checksum_up = runs[r].checksum_up_at_request

\* C9, over states: in every catalog state a run whose status is approved or
\* denied has its Approval row, and a run still awaiting_approval has none.
C9_DecidedHasRow ==
  \A r \in RunIds :
    /\ runs[r].status \in {"approved", "denied"} =>
         \E a \in RowsOf(r) : a.decision = runs[r].status
    /\ runs[r].status = "awaiting_approval" => RowsOf(r) = {}

\* C9, over steps: the decision is one atomic step. A step sets a run's status
\* to approved or denied only together with the insertion of exactly one
\* Approval row of that run and decision, and inserts an Approval row only
\* together with that status; a decide step that fails changes neither. No
\* Approval row exists for a run still awaiting_approval, and Approval rows
\* are removed only by the invalidation step of an SQL edit of the migration.
C9_DecideStep ==
  /\ \A r \in RunIds :
       (runs'[r].status # runs[r].status /\ runs'[r].status \in {"approved", "denied"}) =>
         \E a \in approvals' \ approvals :
           /\ a.run = r
           /\ a.decision = runs'[r].status
           /\ approvals' = approvals \cup {a}
  /\ \A a \in approvals' \ approvals :
       /\ runs'[a.run].status = a.decision
       /\ approvals' = approvals \cup {a}
  /\ \A k \in InFlight :
       (k.kind \in DecideKinds /\ Moved(k)) =>
         \/ runs' = runs /\ approvals' = approvals
         \/ /\ returned' = [kind |-> k.kind, run |-> k.run, result |-> "ok", wrote |-> TRUE]
            /\ runs'[k.run].status \in {"approved", "denied"}
            /\ Cardinality(approvals' \ approvals) = 1
  /\ (approvals \ approvals' # {}) =>
       \E k \in InFlight :
         k.kind = "update" /\ k.pc = "up_delete" /\ k.sqlChanged /\ Moved(k)

C9_RowsFollowStatus ==
  \A r \in RunIds :
    runs[r].status \in {"none", "awaiting_approval"} => RowsOf(r) = {}

C9_DecisionAtomic == []C9_RowsFollowStatus /\ [][C9_DecideStep]_vars

C9_Witness ==
  /\ returned.kind = "approve"
  /\ returned.result = "ok"
  /\ runs[returned.run].status = "approved"
  /\ \E a \in RowsOf(returned.run) : a.decision = "approved"

\* C10: of the decide calls issued on one run at most one succeeds.
C10_OneDecisionSucceeds == \A r \in RunIds : Len(decided[r]) <= 1

\* C11: of the execute calls on one run exactly one performs
\* approved -> running and processes the items: a run's status is set to
\* running at most once.
C11_OneExecuteStartsRun ==
  \A r \in RunIds : Cardinality({h \in hist : h[1] = r /\ h[3] = "running"}) <= 1

\* C14: every run whose status is executed has all of its run items in
\* status executed or skipped.
C14_ExecutedRunItems ==
  \A r \in RunIds :
    runs[r].status = "executed" =>
      \A i \in 1..Len(items[r]) : items[r][i].status \in {"executed", "skipped"}

\* C15: every run whose status is failed has at least one run item in
\* status failed or canceled.
C15_FailedRunHasFailedItem ==
  \A r \in RunIds :
    runs[r].status = "failed" =>
      \E i \in 1..Len(items[r]) : items[r][i].status \in {"failed", "canceled"}

\* A handler returned in this step.
HandlerReturned == BagCardinality(inflight') < BagCardinality(inflight)

\* C18: the stored migration satisfies checksum_up = SHA256(sql_up), and
\* checksum_down is present iff sql_down is present, in which case
\* checksum_down = SHA256(sql_down).
C18_ChecksumsOfSQL ==
  /\ mig.checksum_up = checksum(mig.sql_up)
  /\ (mig.checksum_down = NIL) <=> (mig.sql_down = NIL)
  /\ mig.sql_down # NIL => mig.checksum_down = checksum(mig.sql_down)

\* Two updates overlapped: the one that set sql_up has written and is yet
\* to delete the approvals, the other has since written the row it computed.
C18_Witness ==
  /\ mig.sql_up = InitialSQLUp
  /\ mig.sql_down = "down1"
  /\ mig.checksum_down = checksum("down1")
  /\ \E k \in InFlight :
       k.kind = "update" /\ k.pc = "up_delete" /\ k.patch.sql_up = "up2"

\* C19: when update_migration returns with sql_changed = true, no Approval
\* row exists for the migration.
C19_NoApprovalsAfterSQLEdit ==
  [][\A k \in InFlight :
       ( /\ k.kind = "update" /\ k.pc = "up_delete" /\ k.sqlChanged
         /\ Moved(k) /\ HandlerReturned )
       => approvals' = {}]_vars

\* C20: no catalog state shows the migration with new checksums while
\* Approval rows bound to the old checksums still exist.
C20_EditInvalidatesAtomically ==
  \A a \in approvals :
    /\ a.checksum_up = mig.checksum_up
    /\ a.checksum_down = mig.checksum_down

\* The call is between lock acquire and lock release on target t.
InSection(k, t) ==
  /\ k.kind = "execute"
  /\ k.pc \in {"ex_lookup", "ex_body", "ex_insert", "ex_unlock"}
  /\ CurItem(k).target = t

\* C12: on every target at most one execute call is between lock acquire
\* and lock release (bookkeeping lookup, SQL body, bookkeeping insert), and
\* the target's lock is held while it is.
C12_TargetMutualExclusion ==
  \A t \in TargetSet :
    /\ \A k1, k2 \in InFlight : (InSection(k1, t) /\ InSection(k2, t)) => k1 = k2
    /\ \A k \in InFlight : InSection(k, t) => (inflight[k] = 1 /\ lock[t])

\* A call of one run is about to send the SQL body to a target while a call
\* of another run waits for that target's lock.
C12_Witness ==
  \E k1, k2 \in InFlight :
    /\ k1.run # k2.run
    /\ k1.pc = "ex_body"
    /\ k2.pc = "ex_lock"
    /\ CurItem(k1).target = CurItem(k2).target

LockErrors == {"could not acquire lock", "lock: context deadline exceeded"}

\* C13: an execute call that stopped waiting for a target's lock marks its
\* item failed and its run failed: both catalog writes are open to it.
C13_LockWaitReported ==
  \A k \in InFlight :
    /\ (k.pc = "ex_item_done" /\ k.itemErr \in LockErrors) =>
         ENABLED ExecuteRun_ItemDone(k)
    /\ (k.pc = "ex_finish" /\ k.firstErr \in LockErrors) =>
         ENABLED ExecuteRun_Finish(k)

\* The target of the item has the bookkeeping row of the unchanged migration.
AppliedOn(t) ==
  /\ bookkeeping[t] # NoRow
  /\ bookkeeping[t].checksum_up = mig.checksum_up

\* C16: an execute call of an apply run that finds the bookkeeping row of
\* the unchanged migration on a target ends the item as "already applied"
\* without sending SQL to the target or touching the row, and stores the
\* item as skipped without recording an error; on a target that lacks the
\* row it goes on to the SQL body, which is sent only while the row is
\* absent; a call that recorded no error stores the run as executed.
C16_IdempotentReplay ==
  [][\A k \in InFlight :
       (k.kind = "execute" /\ k.snapRun.run_type = "apply" /\ Moved(k)) =>
         /\ (k.pc = "ex_lookup" /\ AppliedOn(CurItem(k).target)) =>
              /\ NewCalls # {}
              /\ \A k2 \in NewCalls :
                   k2.pc = "ex_unlock" /\ k2.itemErr = "already applied"
              /\ UNCHANGED <<sqlLog, bookkeeping>>
         /\ (k.pc = "ex_lookup" /\ bookkeeping[CurItem(k).target] = NoRow) =>
              /\ NewCalls # {}
              /\ \A k2 \in NewCalls : k2.pc = "ex_body" /\ k2.itemErr = NIL
         /\ (sqlLog' # sqlLog) =>
              /\ k.pc = "ex_body"
              /\ bookkeeping[CurItem(k).target] = NoRow
              /\ sqlLog' = sqlLog \cup {[run |-> k.run, target |-> CurItem(k).target,
                                         sql |-> mig.sql_up]}
         /\ (k.pc = "ex_item_done" /\ k.itemErr = "already applied") =>
              /\ NewCalls # {}
              /\ \A k2 \in NewCalls :
                   /\ k2.firstErr = k.firstErr
                   /\ k2.snapItems[k.idx].status = "skipped"
              /\ items' # items => items'[k.run][k.idx].status = "skipped"
              /\ UNCHANGED <<sqlLog, bookkeeping, runs>>
         /\ (k.pc = "ex_finish" /\ k.firstErr = NIL) =>
              /\ runs'[k.run].status = "executed" \/ UNCHANGED runs
              /\ returned'.kind = "execute" /\ returned'.run = k.run
              /\ returned'.result = "ok"]_vars

\* Run 1 applied the migration on T1; run 2, an apply run over T1 and T2,
\* skipped T1, executed on T2 and is executed.
C16_Witness ==
  /\ runs[2].run_type = "apply"
  /\ runs[2].status = "executed"
  /\ items[2][1].target = "T1" /\ items[2][1].status = "skipped"
  /\ items[2][2].target = "T2" /\ items[2][2].status = "executed"
  /\ bookkeeping["T1"] # NoRow /\ bookkeeping["T1"].tool_run_id = 1
  /\ bookkeeping["T2"] # NoRow /\ bookkeeping["T2"].tool_run_id = 2
  /\ \A e \in sqlLog : e.run = 2 => e.target = "T2"
  /\ \E e \in sqlLog : e.run = 2

\* C17: every SQL body sent for a rollback run is the migration's sql_down,
\* and an executed rollback run has, on each target where an apply run had
\* applied the migration, sent the down SQL and stored the item as executed,
\* the bookkeeping row remaining.
C17_RollbackRunsDown ==
  /\ \A e \in sqlLog : runs[e.run].run_type = "rollback" => e.sql = mig.sql_down
  /\ \A r \in RunIds :
       (runs[r].run_type = "rollback" /\ runs[r].status = "executed") =>
         \A i \in 1..Len(items[r]) :
           LET t == items[r][i].target IN
           (AppliedOn(t) /\ runs[bookkeeping[t].tool_run_id].run_type = "apply") =>
             /\ items[r][i].status = "executed"
             /\ [run |-> r, target |-> t, sql |-> mig.sql_down] \in sqlLog

\* C21: a request_run call that lists the db-set's targets and finds none
\* active returns no_active_targets and has written nothing; no run is
\* without items.
C21_NoActiveTargets ==
  /\ [](\A r \in RunIds : runs[r].status # "none" => Len(items[r]) >= 1)
  /\ [][\A k \in InFlight :
          (k.kind = "request" /\ k.pc = "rq_targets" /\ Moved(k)
             /\ \A t \in TargetSet : ~targetActive[t]) =>
            /\ HandlerReturned
            /\ returned' = [kind |-> "request", run |-> 0,
                            result |-> "no_active_targets", wrote |-> FALSE]
            /\ UNCHANGED <<catalogVars, targetVars>>]_vars

\* A request found no active target, and there is neither run nor item.
C21_Witness ==
  /\ returned.kind = "request"
  /\ returned.result = "no_active_targets"
  /\ \A t \in TargetSet : ~targetActive[t]
  /\ \A r \in RunIds : runs[r].status = "none" /\ items[r] = <<>>

\* C22: the step that creates a run stores it as awaiting_approval with the
\* migration's checksums the request read, together with exactly one queued
\* item for each target that is active at that step and none for an
\* inactive one; runs and items appear in the same step.
C22_RunCreatedWithItems ==
  [][\A r \in RunIds :
       (runs[r].status = "none" /\ runs'[r].status # "none") =>
         /\ runs'[r].status = "awaiting_approval"
         /\ \E k \in InFlight :
              /\ k.kind = "request" /\ Moved(k)
              /\ runs'[r].checksum_up_at_request = k.snapMig.checksum_up
              /\ runs'[r].checksum_down_at_request = k.snapMig.checksum_down
         /\ items[r] = <<>>
         /\ \A i \in 1..Len(items'[r]) : items'[r][i].status = "queued"
         /\ {items'[r][i].target : i \in 1..Len(items'[r])}
              = {t \in TargetSet : targetActive[t]}
         /\ Len(items'[r]) = Cardinality({t \in TargetSet : targetActive[t]})]_vars

\* C23: a rollback request for a migration without sql_down returns
\* missing_sql_down at once and writes nothing, a request that goes on as
\* rollback read a migration with sql_down, and every rollback run carries
\* the checksum of the sql_down it was requested with.
C23_RollbackNeedsSQLDown ==
  /\ [](\A r \in RunIds :
          runs[r].run_type = "rollback" => runs[r].checksum_down_at_request # NIL)
  /\ [][CallStarted =>
          /\ \A k \in NewCalls :
               (k.kind = "request" /\ k.run_type = "rollback") =>
                 (mig.sql_down # NIL /\ k.snapMig.sql_down = mig.sql_down)
          /\ (StartedAndReturned /\ returned'.kind = "request") =>
               /\ mig.sql_down = NIL
               /\ returned'.result = "missing_sql_down"
               /\ ~returned'.wrote
               /\ UNCHANGED <<catalogVars, targetVars>>]_vars

\* A rollback request was refused for want of sql_down, and no run exists.
C23_Witness ==
  /\ returned.kind = "request"
  /\ returned.result = "missing_sql_down"
  /\ mig.sql_down = NIL
  /\ \A r \in RunIds : runs[r].status = "none"

\* C24: execute starts a run whatever the activity of its items' targets;
\* at an item whose target is inactive the call ends the item with
\* "target disabled" without taking the target's lock or sending anything
\* to it, stores the item as failed with that text, takes it as the run's
\* first error and leaves the loop, and stores the run as failed.
C24_DisabledTargetFailsItem ==
  [][\A k \in InFlight :
       (k.kind = "execute" /\ Moved(k)) =>
         /\ (k.pc \in {"ex_start", "ex_item"}) =>
              \A k2 \in NewCalls : k2.pc \in {"ex_item", "ex_target", "ex_finish"}
         /\ (k.pc = "ex_target" /\ ~targetActive[CurItem(k).target]) =>
              /\ NewCalls # {}
              /\ \A k2 \in NewCalls :
                   k2.pc = "ex_item_done" /\ k2.itemErr = "target disabled"
              /\ UNCHANGED <<catalogVars, targetVars>>
         /\ (k.pc = "ex_item_done" /\ k.itemErr = "target disabled") =>
              /\ NewCalls # {}
              /\ \A k2 \in NewCalls :
                   /\ k2.pc = "ex_finish"
                   /\ k2.firstErr = "target disabled"
                   /\ k2.snapItems[k.idx].status = "failed"
              /\ items' # items =>
                   /\ items'[k.run][k.idx].status = "failed"
                   /\ items'[k.run][k.idx].error = "target disabled"
              /\ UNCHANGED <<targetVars, runs>>
         /\ (k.pc = "ex_finish" /\ k.firstErr = "target disabled") =>
              /\ runs'[k.run].status = "failed" \/ UNCHANGED runs
              /\ returned'.run = k.run /\ returned'.result # "ok"
              /\ UNCHANGED <<targetVars, items>>]_vars

\* A run whose target was disabled after the request was executed: its
\* item is failed with "target disabled", the run is failed, and nothing
\* was sent to the target.
C24_Witness ==
  \E r \in RunIds :
    /\ runs[r].status = "failed"
    /\ Len(items[r]) = 1
    /\ ~targetActive[items[r][1].target]
    /\ items[r][1].status = "failed"
    /\ items[r][1].error = "target disabled"
    /\ sqlLog = {}
    /\ \A t \in TargetSet : ~lock[t] /\ bookkeeping[t] = NoRow

\* C25: an execute call that leaves the item loop on a target's failure
\* returns the final run object to its caller, not an error.
C25_CallerGetsRun ==
  [][\A k \in InFlight :
       (k.kind = "execute" /\ k.pc = "ex_finish" /\ Moved(k)
          /\ k.idx <= Len(k.snapItems) /\ k.snapItems[k.idx].status = "failed") =>
         /\ returned'.kind = "execute" /\ returned'.run = k.run
         /\ returned'.result = "ok"]_vars

\* C26: an execute call whose request was cancelled while it was at an item
\* returns with the item stored as failed and the run stored as failed, not
\* running.
C26_CancelledRunFinalized ==
  [][\A k \in InFlight :
       (k.kind = "execute" /\ k.ctxDone /\ Moved(k) /\ HandlerReturned) =>
         /\ items'[k.run][k.idx].status = "failed"
         /\ runs'[k.run].status = "failed"]_vars

\* C27: the audit insert of a command, written or failed, leaves the
\* catalog, the targets and the command's result as the command left them,
\* and it is made only for an outcome the handler audits.
C27_AuditBestEffort ==
  /\ [](audit # "none" => Audits(returned.kind, returned.result))
  /\ [][audit' # audit =>
          \/ audit' \in {"none", "pending"} /\ audit' = AuditOf(returned'.kind, returned'.result)
          \/ /\ audit = "pending"
             /\ audit' \in {"written", "failed"}
             /\ UNCHANGED <<catalogVars, targetVars, inflight, hist, decided, returned>>]_vars

\* The audit insert of a successful request_run failed: the request's
\* result is ok and its run exists with its items.
C27_Witness ==
  /\ audit = "failed"
  /\ returned.kind = "request"
  /\ returned.result = "ok"
  /\ returned.wrote
  /\ runs[returned.run].status = "awaiting_approval"
  /\ Len(items[returned.run]) >= 1

\* C28: every item after a failed item of a run is still queued, and no SQL
\* was sent to its target for the run.
C28_AbortOnFirstFailure ==
  \A r \in RunIds :
    \A i \in 1..Len(items[r]) :
      items[r][i].status = "failed" =>
        \A j \in (i + 1)..Len(items[r]) :
          /\ items[r][j].status = "queued"
          /\ \A e \in sqlLog : ~(e.run = r /\ e.target = items[r][j].target)

\* C29: at most one item of a run is in status running, and every item
\* before an item that has left status queued is executed or skipped.
C29_ItemsInOrder ==
  \A r \in RunIds :
    /\ Cardinality({i \in 1..Len(items[r]) : items[r][i].status = "running"}) <= 1
    /\ \A i \in 1..Len(items[r]) :
         items[r][i].status # "queued" =>
           \A j \in 1..(i - 1) : items[r][j].status \in {"executed", "skipped"}

\* C30: a call that finds the row of the migration with the same
\* checksum_up on the item's target goes from the lookup straight to the
\* release of the lock, sending no SQL body and inserting no row; it stores
\* the item as skipped with the message "already applied, skipped" and goes
\* on with the next queued item, or, there being none, ends the loop with
\* no error recorded for the item.
C30_SkipRule ==
  /\ [](\A k \in InFlight :
          k.itemErr = "already applied" => k.pc \notin {"ex_body", "ex_insert"})
  /\ [][\A k \in InFlight :
          (k.kind = "execute" /\ Moved(k)) =>
            /\ (k.pc = "ex_lookup" /\ AppliedOn(CurItem(k).target)) =>
                 \A k2 \in NewCalls : k2.itemErr = "already applied"
            /\ (k.pc = "ex_unlock" /\ k.itemErr = "already applied") =>
                 /\ ~lock'[CurItem(k).target]
                 /\ \A k2 \in NewCalls : k2.pc = "ex_item_done"
                 /\ UNCHANGED <<catalogVars, sqlLog, bookkeeping>>
            /\ (k.pc = "ex_item_done" /\ k.itemErr = "already applied") =>
                 /\ items' # items =>
                      /\ items'[k.run][k.idx].status = "skipped"
                      /\ items'[k.run][k.idx].error = "already applied, skipped"
                 /\ \A k2 \in NewCalls :
                      /\ k2.firstErr = k.firstErr
                      /\ k2.snapItems[k.idx].error = NIL
                      /\ IF \E j \in (k.idx + 1)..Len(k.snapItems) :
                              k.snapItems[j].status = "queued"
                           THEN /\ k2.pc = "ex_item"
                                /\ k2.idx > k.idx
                                /\ k2.snapItems[k2.idx].status = "queued"
                                /\ \A j \in (k.idx + 1)..(k2.idx - 1) :
                                     k.snapItems[j].status # "queued"
                           ELSE k2.pc = "ex_finish"
                 /\ UNCHANGED targetVars]_vars

\* Run 2 has its item on T1 stored as skipped with the message, T1's lock is
\* free, the row on T1 is run 1's, and the call is at its next item, on T2.
C30_Witness ==
  \E k \in InFlight :
    /\ k.run = 2 /\ k.pc = "ex_item" /\ k.idx = 2
    /\ items[2][1].target = "T1"
    /\ items[2][1].status = "skipped"
    /\ items[2][1].error = "already applied, skipped"
    /\ items[2][2].status = "queued"
    /\ ~lock["T1"]
    /\ bookkeeping["T1"].tool_run_id = 1
    /\ \A e \in sqlLog : e.run # 2

ConflictError == "migration already applied with different checksum"

\* The target has a bookkeeping row of the migration with another checksum.
ConflictOn(t) ==
  /\ bookkeeping[t] # NoRow
  /\ bookkeeping[t].checksum_up # mig.checksum_up

\* C31: a call that finds a bookkeeping row with another checksum_up on the
\* item's target ends the item with the conflict error, sends nothing to
\* the target and leaves its row as it is; it stores the item as failed
\* with that error, attempts no further item and stores the run as failed.
C31_ConflictRule ==
  [][\A k \in InFlight :
       (k.kind = "execute" /\ Moved(k)) =>
         /\ (k.pc = "ex_lookup" /\ ConflictOn(CurItem(k).target)) =>
              /\ NewCalls # {}
              /\ \A k2 \in NewCalls :
                   k2.pc = "ex_unlock" /\ k2.itemErr = ConflictError
              /\ UNCHANGED <<catalogVars, targetVars>>
         /\ (k.pc = "ex_unlock" /\ k.itemErr = ConflictError) =>
              /\ \A k2 \in NewCalls : k2.pc = "ex_item_done"
              /\ UNCHANGED <<catalogVars, bookkeeping, sqlLog, effects>>
         /\ (k.pc = "ex_item_done" /\ k.itemErr = ConflictError) =>
              /\ NewCalls # {}
              /\ \A k2 \in NewCalls :
                   /\ k2.pc = "ex_finish"
                   /\ k2.firstErr = ConflictError
                   /\ k2.snapItems[k.idx].status = "failed"
              /\ items' # items =>
                   /\ items'[k.run][k.idx].status = "failed"
                   /\ items'[k.run][k.idx].error = ConflictError
              /\ UNCHANGED <<targetVars, runs>>
         /\ (k.pc = "ex_finish" /\ k.firstErr = ConflictError) =>
              /\ runs'[k.run].status = "failed" \/ UNCHANGED runs
              /\ returned'.run = k.run /\ returned'.result # "ok"
              /\ UNCHANGED <<targetVars, items>>]_vars

\* Run 2 met the row of the earlier version on T2: its item on T2 is failed
\* with the conflict error, the run is failed, nothing was sent to T2 and
\* T2's row and effects are the earlier version's.
C31_Witness ==
  /\ runs[2].status = "failed"
  /\ items[2][2].target = "T2"
  /\ items[2][2].status = "failed"
  /\ items[2][2].error = ConflictError
  /\ bookkeeping["T2"] = OldRow
  /\ effects["T2"] = {OldSQLUp}
  /\ \A e \in sqlLog : e.target # "T2"

\* C32: under tx_mode single_transaction or auto a target has the
\* bookkeeping row of the migration iff the effects of the SQL body are in
\* place on it, the body being the one the row's checksum is of; and an item
\* is stored as executed only when both are there.
C32_BodyAndRowAtomic ==
  mig.tx_mode \in {"single_transaction", "auto"} =>
    /\ \A t \in TargetSet :
         /\ bookkeeping[t] = NoRow <=> effects[t] = {}
         /\ \A b \in effects[t] :
              effects[t] = {b} /\ checksum(b) = bookkeeping[t].checksum_up
    /\ \A r \in RunIds : \A i \in 1..Len(items[r]) :
         items[r][i].status = "executed" =>
           /\ bookkeeping[items[r][i].target] # NoRow
           /\ effects[items[r][i].target] # {}

\* In a transaction the body was sent to T1 and the bookkeeping insert
\* failed: the item is failed and T1 has neither row nor effects.
C32_Witness ==
  /\ mig.tx_mode \in {"single_transaction", "auto"}
  /\ \E r \in RunIds :
       /\ items[r][1].target = "T1"
       /\ items[r][1].status = "failed"
       /\ items[r][1].error = "sql error"
       /\ [run |-> r, target |-> "T1", sql |-> mig.sql_up] \in sqlLog
  /\ bookkeeping["T1"] = NoRow
  /\ effects["T1"] = {}

\* C40: under tx_mode no_transaction the SQL body takes effect on the
\* target when it is sent, before and apart from the bookkeeping insert; a
\* failing insert leaves the body's effects in place and no row, and ends
\* the item with an error, which is stored as failed; and a call that finds
\* no row on the target sends the body, whatever is in effect there.
C40_NoTransactionSteps ==
  [][\A k \in InFlight :
       (k.kind = "execute" /\ Moved(k) /\ k.snapMig.tx_mode = "no_transaction") =>
         /\ (k.pc = "ex_lookup" /\ bookkeeping[CurItem(k).target] = NoRow) =>
              \A k2 \in NewCalls : k2.pc = "ex_body"
         /\ (k.pc = "ex_body" /\ sqlLog' # sqlLog) =>
              /\ SQLBody(k) \in effects'[CurItem(k).target]
              /\ UNCHANGED bookkeeping
              /\ \A k2 \in NewCalls : k2.pc = "ex_insert"
         /\ (k.pc = "ex_insert") =>
              /\ bookkeeping[CurItem(k).target] = NoRow
              /\ SQLBody(k) \in effects[CurItem(k).target]
              /\ UNCHANGED effects
              /\ bookkeeping'[CurItem(k).target] = NoRow =>
                   \A k2 \in NewCalls : k2.pc = "ex_unlock" /\ k2.itemErr = "sql error"
         /\ (k.pc = "ex_item_done" /\ k.itemErr = "sql error") =>
              /\ items' # items => items'[k.run][k.idx].status = "failed"
              /\ \A k2 \in NewCalls : k2.pc = "ex_finish" /\ k2.firstErr = "sql error"
              /\ UNCHANGED targetVars]_vars

\* Without a transaction the bookkeeping insert of one run failed on T1
\* after its body: the item is failed, the body's effects are on T1 and no
\* row is; another run has found no row and has sent the body to T1 again.
C40_Witness ==
  /\ mig.tx_mode = "no_transaction"
  /\ bookkeeping["T1"] = NoRow
  /\ effects["T1"] = {mig.sql_up}
  /\ \E r1, r2 \in RunIds :
       /\ r1 # r2
       /\ items[r1][1].target = "T1"
       /\ items[r1][1].status = "failed"
       /\ items[r1][1].error = "sql error"
       /\ [run |-> r1, target |-> "T1", sql |-> mig.sql_up] \in sqlLog
       /\ [run |-> r2, target |-> "T1", sql |-> mig.sql_up] \in sqlLog
       /\ \E k \in InFlight : k.run = r2 /\ k.pc = "ex_insert" /\ k.idx = 1

\* C39: a bookkeeping row on a target is never modified or deleted once it
\* is written, and the row a run wrote carries the run's id, the run's
\* executed_by and the migration's checksum_up.
C39_BookkeepingRows ==
  /\ [](\A t \in TargetSet :
          bookkeeping[t].tool_run_id \in RunIds =>
            /\ bookkeeping[t].checksum_up = mig.checksum_up
            /\ bookkeeping[t].applied_by = runs[bookkeeping[t].tool_run_id].executed_by)
  /\ [][\A t \in TargetSet :
          bookkeeping[t] # NoRow => bookkeeping'[t] = bookkeeping[t]]_vars

\* C35: the persisted status of a run item moves queued -> running and
\* running -> executed, skipped or failed, and in no other way.
C35_ItemStatusForward ==
  [][\A r \in RunIds : \A i \in 1..Len(items[r]) :
       items'[r][i].status # items[r][i].status =>
         \/ items[r][i].status = "queued" /\ items'[r][i].status = "running"
         \/ /\ items[r][i].status = "running"
            /\ items'[r][i].status \in {"executed", "skipped", "failed"}]_vars

\* C36: when an execute call that ran the item loop returns, the persisted
\* status of the run and of each of its items is the status in the run
\* object the call returns.
C36_ReturnedRunAgrees ==
  [][\A k \in InFlight :
       (k.kind = "execute" /\ k.pc = "ex_finish" /\ Moved(k) /\ HandlerReturned) =>
         /\ runs'[k.run].status = FinalStatus(k)
         /\ \A i \in 1..Len(k.snapItems) :
              items'[k.run][i].status = k.snapItems[i].status]_vars

\* C37: running is not a final persisted status: a run stored as running
\* has an execute call in flight that is past the write that stored it.
C37_RunningHasExecutor ==
  \A r \in RunIds :
    runs[r].status = "running" =>
      \E k \in InFlight :
        /\ k.kind = "execute" /\ k.run = r
        /\ k.pc \notin {"ex_items", "ex_mig", "ex_start"}

\* C33: an update call reports sql_changed exactly when the SQL it writes
\* differs from the SQL it read, and the write of an update that reports
\* sql_changed = false leaves the migration's version and checksums and the
\* Approval rows as they are.
C33_MetadataOnlyFrame ==
  /\ [](\A k \in InFlight :
          (k.kind = "update" /\ k.pc = "up_write") =>
            k.sqlChanged =
              (\/ PatchedSQLUp(k.snapMig, k.patch) # k.snapMig.sql_up
               \/ PatchedSQLDown(k.snapMig, k.patch) # k.snapMig.sql_down))
  /\ [][\A k \in InFlight :
          (k.kind = "update" /\ k.pc = "up_write" /\ ~k.sqlChanged /\ Moved(k)) =>
            /\ mig'.version = mig.version
            /\ mig'.checksum_up = mig.checksum_up
            /\ mig'.checksum_down = mig.checksum_down
            /\ approvals' = approvals]_vars

\* C38: the migration's version never decreases, the write of an update
\* that reports sql_changed = true raises it by exactly one, and the write
\* of an update that reports sql_changed = false changes neither sql_up nor
\* the checksums nor the version.
C38_VersionMonotonic ==
  [][/\ mig'.version >= mig.version
     /\ \A k \in InFlight :
          (k.kind = "update" /\ k.pc = "up_write" /\ Moved(k) /\ mig' # mig) =>
            IF k.sqlChanged
              THEN mig'.version = mig.version + 1
              ELSE /\ mig'.sql_up = mig.sql_up
                   /\ mig'.version = mig.version]_vars

\* C34: whenever the audit log has a migration_updated event with
\* sql_changed = true, it has a migration_approvals_invalidated event of the
\* same version, inserted before it.
C34_InvalidatedBeforeUpdated ==
  \A e \in auditEvents :
    (e.action = "migration_updated" /\ e.payload.sql_changed) =>
      [action |-> "migration_approvals_invalidated",
       payload |-> [version |-> e.payload.version]] \in auditEvents

====
